---- MODULE Spec2Model ----
(***************************************************************************)
(* RAGAgent of new_app.py: the LangGraph state graph built in setup_agent  *)
(* (nodes "llm" and "retriever_agent", the conditional edge                 *)
(* should_continue) and ask_question, which runs the graph on one question *)
(* and turns every exception into a fixed text.                            *)
(*                                                                         *)
(* Text is modelled as a sequence of string pieces, so that the f-string   *)
(* and join of retriever_tool are computed, not assumed.                   *)
(***************************************************************************)
EXTENDS Integers, Sequences, FiniteSets, TLC

VARIABLES
    pc,              \* position of the process: boot, startup_failed, idle, then of
                     \* ask_question: llm, retriever_agent, end, raised, returned
    index,           \* chunks held by the vector store, in similarity rank order
    question,        \* the text passed to ask_question
    messages,        \* state['messages'] of the running graph
    step,            \* supersteps the graph has executed for this invocation
    error,           \* which call raised: none, llm, tool, recursion
    answer,          \* the value ask_question returned
    llmInput,        \* the message list most recently handed to self.llm.invoke
    llmCalls,        \* number of self.llm.invoke calls
    retrieverCalls,  \* number of retriever_tool invocations
    produced,        \* every assistant and tool message created so far, in order
    nextId,          \* next tool-call id the reasoning service hands out
    queryLog,        \* queries handed to retriever_tool by the latest take_action
    pdfExists,       \* os.path.exists(pdf_path) when the module is loaded
    builds,          \* number of Chroma.from_documents calls
    request,         \* body of the POST /ask request being handled
    response,        \* what the /ask handler returned
    agentCalls,      \* number of rag_agent.ask_question calls made by the handler
    frames,          \* concurrent callers: the frame of each ask_question call
    states           \* concurrent callers: state['messages'] of each graph run

\* the variables of one ask_question call besides pc
agentVars == <<question, messages, step, error, answer, llmInput,
               llmCalls, retrieverCalls, produced, nextId, queryLog>>

startVars == <<pdfExists, builds, index>>

routeVars == <<request, response, agentCalls>>

concVars == <<frames, states>>

vars == <<pc, agentVars, startVars, routeVars, concVars>>

-----------------------------------------------------------------------------
(* Bounds of the model *)

\* reasoning turns whose response is drawn from the full response set;
\* later turns answer, fail, or request the single default retrieval
MaxFreeTurns == 1
\* largest number of tool-call requests in one free assistant message
MaxCalls == 2
\* largest number of chunks in the vector store (more than k, so that the
\* store holds chunks a query does not return)
MaxChunks == 6

(* Program constants *)

\* search_kwargs={"k": 5}
K == 5
\* recursion_limit of a compiled graph invoked without a config: the number
\* of supersteps (node executions) one invoke may run
RecursionLimit == 25

Questions == {<<"What is EF1?">>, <<"Who wrote the paper?">>}
QueryTexts == {<<"envy-freeness">>}
NoAnswer == <<>>

\* page_content of the chunks the splitter may produce, best match first
ChunkTexts ==
    <<"EF1 allocations exist for monotone valuations.",
      "Round-robin yields an EF1 allocation.",
      "EFX existence is open for four agents.",
      "Maximum Nash welfare is EF1 and Pareto optimal.",
      "Envy-cycle elimination runs in polynomial time.",
      "MMS allocations need not exist.",
      "A 3/4-approximation of MMS always exists.">>

Min(a, b) == IF a < b THEN a ELSE b

Last(s) == s[Len(s)]

-----------------------------------------------------------------------------
(* Messages *)

NoId == 0

SystemMessage(c) ==
    [role |-> "system", content |-> c, tool_calls |-> <<>>, tool_call_id |-> NoId, name |-> ""]

HumanMessage(c) ==
    [role |-> "user", content |-> c, tool_calls |-> <<>>, tool_call_id |-> NoId, name |-> ""]

AIMessage(c, calls) ==
    [role |-> "assistant", content |-> c, tool_calls |-> calls, tool_call_id |-> NoId, name |-> ""]

ToolMessage(id, nm, c) ==
    [role |-> "tool", content |-> c, tool_calls |-> <<>>, tool_call_id |-> id, name |-> nm]

system_prompt ==
    <<"You are an intelligent AI assistant who answers questions about indivisible fair division and related topics. Use the retriever tool to look up information from the research paper. Always cite specific parts of the document in your answers.">>

FallbackText ==
    <<"I'm sorry, I encountered an error while processing your question. Please try again.">>

NoInfoText == <<"No relevant information found in the research paper.">>

IncorrectToolText == <<"Incorrect Tool Name, please use the available tool.">>

-----------------------------------------------------------------------------
(* Retrieval tool *)

\* t['args'].get(key, default)
DictGet(args, key, default) == IF key \in DOMAIN args THEN args[key] ELSE default

\* self.retriever.get_relevant_documents(query): the k best chunks of the store
get_relevant_documents(store, query) == SubSeq(store, 1, Min(K, Len(store)))

\* the label taken from the 0-based position itself
DocLabel_zero_based(i, doc) == <<"Document ", ToString(i), ":\n", doc>>

\* f"Document {i+1}:\n{doc.page_content}" for the 0-based position i
DocLabel(i, doc) == <<"Document ", ToString(i + 1), ":\n", doc>>

RECURSIVE JoinFrom(_, _)
\* "\n\n".join(...) over the enumerate positions i .. len(docs)-1
JoinFrom(docs, i) ==
    IF i >= Len(docs) THEN <<>>
    ELSE IF i = Len(docs) - 1 THEN DocLabel(i, docs[i + 1])
    ELSE DocLabel(i, docs[i + 1]) \o <<"\n\n">> \o JoinFrom(docs, i + 1)

retriever_tool(store, query) ==
    LET docs == get_relevant_documents(store, query)
    IN  IF docs = <<>> THEN NoInfoText ELSE JoinFrom(docs, 0)

\* self.tools_dict = {t.name: t for t in tools}
tools_dict == {"retriever_tool"}

-----------------------------------------------------------------------------
(* Graph nodes *)

\* should_continue with the comparison turned around
should_continue_inverted(msgs) == Len(Last(msgs).tool_calls) = 0

\* should_continue reduced to its hasattr test: any assistant message continues
should_continue_hasattr_only(msgs) == Last(msgs).role = "assistant"

\* the conditional edge of node "llm"
should_continue(msgs) == Len(Last(msgs).tool_calls) > 0

\* a mapping whose False branch leads back to the reasoning node
NextNode_loops_back(continue) == IF continue THEN "retriever_agent" ELSE "llm"

\* add_conditional_edges("llm", should_continue, {True: "retriever_agent", False: END})
NextNode(continue) == IF continue THEN "retriever_agent" ELSE "end"

\* the list call_llm builds for self.llm.invoke
LLMMessages(msgs) == <<SystemMessage(system_prompt)>> \o msgs

\* AgentState declares messages without a reducer, so the graph keeps the
\* value a node returns in place of the previous one
WriteMessages(old, new) == new

\* result of one tool call in take_action
CallResult(store, t) ==
    IF t.name \notin tools_dict
    THEN IncorrectToolText
    ELSE retriever_tool(store, DictGet(t.args, "query", <<>>))

\* the results list take_action returns when no tool raises
ToolResults(store, calls) ==
    [i \in 1..Len(calls) |-> ToolMessage(calls[i].id, calls[i].name, CallResult(store, calls[i]))]

\* positions of the calls that reach a registered tool
Registered(calls) == {i \in 1..Len(calls) : calls[i].name \in tools_dict}

RECURSIVE InvokedQueries(_, _)
\* the queries take_action hands to the registered tool for the first n calls
InvokedQueries(calls, n) ==
    IF n = 0 THEN <<>>
    ELSE IF calls[n].name \in tools_dict
         THEN Append(InvokedQueries(calls, n - 1), DictGet(calls[n].args, "query", <<>>))
         ELSE InvokedQueries(calls, n - 1)

\* a graph without a superstep limit
OutOfSteps_never(s) == FALSE

\* the graph stops with GraphRecursionError once the limit of supersteps is used up
OutOfSteps(s) == s >= RecursionLimit

-----------------------------------------------------------------------------
(* The reasoning service *)

QueryArgs == {[k \in {"query"} |-> q] : q \in QueryTexts}
NoArgs == [k \in {} |-> <<>>]

\* the shapes of tool-call request the service may emit: the registered tool
\* with a query, the registered tool without one, a name nobody registered
CallShapes ==
    {[name |-> "retriever_tool", args |-> a] : a \in QueryArgs \cup {NoArgs}}
        \cup {[name |-> "web_search", args |-> a] : a \in QueryArgs}

DefaultShape == [name |-> "retriever_tool", args |-> CHOOSE a \in QueryArgs : TRUE]

ShapeLists(maxLen) == UNION {[1..n -> CallShapes] : n \in 1..maxLen}

\* the service numbers its requests itself; ids are never reused
WithIds(shapes, first) ==
    [i \in 1..Len(shapes) |->
        [id |-> first + i - 1, name |-> shapes[i].name, args |-> shapes[i].args]]

FinalText == <<"EF1 allocations always exist (Document 1).">>

\* the assistant messages self.llm.invoke may return on reasoning turn number `turn`
Responses(turn, first) ==
    {AIMessage(FinalText, <<>>)}
        \cup {AIMessage(<<>>, WithIds(<<DefaultShape>>, first))}
        \cup (IF turn <= MaxFreeTurns
              THEN {AIMessage(<<>>, WithIds(sh, first)) : sh \in ShapeLists(MaxCalls)}
              ELSE {})

-----------------------------------------------------------------------------
(* ask_question *)

\* an except clause that names the tools' errors only
Caught_tool_errors_only(kind) == kind = "tool"

\* an except clause that names the reasoning service's errors only
Caught_service_errors_only(kind) == kind = "llm"

\* except Exception: every failure of the graph is caught
Caught(kind) == TRUE

\* an except branch that returns what the conversation holds
ExceptionAnswer_last_message(msgs) == Last(msgs).content

\* the text the except branch returns
ExceptionAnswer(msgs) == FallbackText

\* result['messages'][-1].content
ExtractAnswer(msgs) == Last(msgs).content

\* a process that builds the agent again whenever it is idle
ConstructsAt_every_request(p) == p \in {"boot", "idle"}

\* rag_agent = RAGAgent() is a module-level statement: it runs once, when the
\* module is loaded
ConstructsAt(p) == p = "boot"

\* a constructor that goes on without the file
MissingCorpusIsFatal_degraded(exists) == FALSE

\* if not os.path.exists(pdf_path): raise FileNotFoundError
MissingCorpusIsFatal(exists) == ~exists

\* no ask_question call is running and none has run
AgentIdle ==
    /\ question = NoAnswer
    /\ messages = <<>>
    /\ step = 0
    /\ error = "none"
    /\ answer = NoAnswer
    /\ llmInput = <<>>
    /\ llmCalls = 0
    /\ retrieverCalls = 0
    /\ produced = <<>>
    /\ nextId = 1
    /\ queryLog = <<>>

NoRequest == [kind |-> "none", question |-> <<>>]

NoResponse == [code |-> 0, status |-> "", error |-> <<>>, answer |-> <<>>]

RouteIdle ==
    /\ request = NoRequest
    /\ response = NoResponse
    /\ agentCalls = 0

\* the threads of the server that may be inside ask_question at once
Callers == {"thread-1", "thread-2"}

\* the reasoning service never hands the same tool-call id to two calls
IdBase(c) == IF c = "thread-1" THEN 100 ELSE 200

IdleFrame(c) ==
    [pc |-> "idle", question |-> NoAnswer, step |-> 0, error |-> "none",
     answer |-> NoAnswer, llmInput |-> <<>>, nextId |-> IdBase(c) + 1]

ConcIdle ==
    /\ frames = [c \in Callers |-> IdleFrame(c)]
    /\ states = [c \in Callers |-> <<>>]

\* the process before the module-level statements have run
Init ==
    /\ pc = "boot"
    /\ pdfExists \in BOOLEAN
    /\ builds = 0
    /\ index = <<>>
    /\ AgentIdle
    /\ RouteIdle
    /\ ConcIdle

\* RAGAgent.__init__: the existence check, then loading, splitting and
\* Chroma.from_documents, any of which may raise and end the process
Construct ==
    /\ ConstructsAt(pc)
    /\ IF MissingCorpusIsFatal(pdfExists)
       THEN /\ pc' = "startup_failed"
            /\ UNCHANGED <<builds, index>>
       ELSE \/ /\ pc' = "startup_failed"
               /\ UNCHANGED <<builds, index>>
            \/ /\ index' \in {SubSeq(ChunkTexts, 1, n) :
                                 n \in {0, 1, Min(MaxChunks, Len(ChunkTexts))}}
               /\ builds' = builds + 1
               /\ pc' = "idle"
    /\ UNCHANGED <<pdfExists, agentVars, routeVars, concVars>>

\* ask_question(q) up to self.rag_agent.invoke: the graph starts at its entry point
AskWith(q) ==
    /\ question' = q
    /\ messages' = <<HumanMessage(q)>>
    /\ pc' = "llm"
    /\ step' = 0
    /\ UNCHANGED <<error, answer, llmInput, llmCalls, retrieverCalls, produced, nextId,
                   queryLog, startVars, concVars>>

\* a direct call of ask_question
Ask ==
    /\ pc = "idle"
    /\ \E q \in Questions : AskWith(q)
    /\ UNCHANGED routeVars

\* node "llm": call_llm followed by the conditional edge should_continue.
\* self.llm.invoke either raises (service error, response that cannot be
\* parsed) or returns one assistant message
CallLLM ==
    /\ pc = "llm"
    /\ ~OutOfSteps(step)
    /\ llmInput' = LLMMessages(messages)
    /\ llmCalls' = llmCalls + 1
    /\ \/ /\ pc' = "raised"
          /\ error' = "llm"
          /\ UNCHANGED <<messages, step, produced, nextId>>
       \/ \E m \in Responses(llmCalls + 1, nextId) :
            /\ messages' = WriteMessages(messages, <<m>>)
            /\ produced' = Append(produced, m)
            /\ nextId' = nextId + Len(m.tool_calls)
            /\ pc' = NextNode(should_continue(messages'))
            /\ step' = step + 1
            /\ UNCHANGED error
    /\ UNCHANGED <<question, answer, retrieverCalls, queryLog, startVars, routeVars, concVars>>

\* node "retriever_agent": take_action followed by the edge back to "llm".
\* failAt = 0: no tool raises; failAt = i: the invocation of the i-th call's
\* tool raises (lookup or embedding error, argument binding), which ends the
\* for loop and the node without a return value
TakeAction ==
    /\ pc = "retriever_agent"
    /\ ~OutOfSteps(step)
    /\ LET tool_calls == Last(messages).tool_calls
       IN  \E failAt \in {0} \cup Registered(tool_calls) :
            IF failAt = 0
            THEN /\ messages' = WriteMessages(messages, ToolResults(index, tool_calls))
                 /\ produced' = produced \o ToolResults(index, tool_calls)
                 /\ retrieverCalls' = retrieverCalls + Cardinality(Registered(tool_calls))
                 /\ queryLog' = InvokedQueries(tool_calls, Len(tool_calls))
                 /\ pc' = "llm"
                 /\ step' = step + 1
                 /\ UNCHANGED error
            ELSE /\ retrieverCalls' =
                        retrieverCalls + Cardinality({i \in Registered(tool_calls) : i <= failAt})
                 /\ queryLog' = InvokedQueries(tool_calls, failAt)
                 /\ pc' = "raised"
                 /\ error' = "tool"
                 /\ UNCHANGED <<messages, produced, step>>
    /\ UNCHANGED <<question, answer, llmInput, llmCalls, nextId, startVars, routeVars, concVars>>

\* the graph has used its supersteps and a node is still scheduled
GraphRecursion ==
    /\ pc \in {"llm", "retriever_agent"}
    /\ OutOfSteps(step)
    /\ pc' = "raised"
    /\ error' = "recursion"
    /\ UNCHANGED <<question, messages, step, answer, llmInput, llmCalls,
                   retrieverCalls, produced, nextId, queryLog, startVars, routeVars, concVars>>

\* the graph reached END: return result['messages'][-1].content
ReturnAnswer ==
    /\ pc = "end"
    /\ answer' = ExtractAnswer(messages)
    /\ pc' = "returned"
    /\ UNCHANGED <<question, messages, step, error, llmInput, llmCalls,
                   retrieverCalls, produced, nextId, queryLog, startVars, routeVars, concVars>>

\* the graph raised: the except branch of ask_question
ReturnFallback ==
    /\ pc = "raised"
    /\ IF Caught(error)
       THEN /\ answer' = ExceptionAnswer(messages)
            /\ pc' = "returned"
       ELSE /\ pc' = "escaped"
            /\ UNCHANGED answer
    /\ UNCHANGED <<question, messages, step, error, llmInput, llmCalls,
                   retrieverCalls, produced, nextId, queryLog, startVars, routeVars, concVars>>

Next ==
    \/ Construct
    \/ Ask
    \/ CallLLM
    \/ TakeAction
    \/ GraphRecursion
    \/ ReturnAnswer
    \/ ReturnFallback

Spec == Init /\ [][Next]_vars

-----------------------------------------------------------------------------
(* The /ask route *)

Whitespace == {" ", "\n", "\t"}

RECURSIVE LStrip(_)
LStrip(t) ==
    IF t = <<>> THEN <<>>
    ELSE IF Head(t) \in Whitespace THEN LStrip(Tail(t)) ELSE t

RECURSIVE RStrip(_)
RStrip(t) ==
    IF t = <<>> THEN <<>>
    ELSE IF Last(t) \in Whitespace THEN RStrip(SubSeq(t, 1, Len(t) - 1)) ELSE t

\* str.strip(): whitespace removed at both ends, kept inside
Strip(t) == RStrip(LStrip(t))

\* the request bodies: nothing that parses as JSON, an object without the
\* key, the key with null, the key with a number, the key with a text
RequestBodies ==
    {[kind |-> k, question |-> <<>>] : k \in {"no_json", "no_key", "null", "number"}}
        \cup {[kind |-> "text", question |-> t] :
                 t \in {<<>>, <<" ">>, <<"\t", "\n">>,
                        <<" ", "What is", " ", "EF1?", "\n">>,
                        <<"Who wrote the paper?">>}}

\* request.get_json(), data.get('question', ''), .strip(): a body that is no
\* JSON object and a question that is no string raise
HandlerRaises(b) == b.kind \in {"no_json", "null", "number"}

\* data.get('question', '').strip()
QuestionOf(b) == Strip(IF b.kind = "no_key" THEN <<>> ELSE b.question)

NoQuestionText == <<"No question provided">>

ErrorText == <<"An error occurred while processing your question">>

\* jsonify({'error': 'No question provided'}), 400
BadRequest == [code |-> 400, status |-> "", error |-> NoQuestionText, answer |-> <<>>]

\* jsonify({'error': ..., 'status': 'error'}), 500
ServerError == [code |-> 500, status |-> "error", error |-> ErrorText, answer |-> <<>>]

\* jsonify({'answer': answer, 'status': 'success'})
Success(a) == [code |-> 200, status |-> "success", error |-> <<>>, answer |-> a]

\* the handler up to the call of rag_agent.ask_question, or to its return
\* when the call is not made
RouteReceive ==
    /\ pc = "idle"
    /\ request = NoRequest
    /\ \E b \in RequestBodies :
        /\ request' = b
        /\ IF HandlerRaises(b)
           THEN /\ response' = ServerError
                /\ pc' = "responded"
                /\ UNCHANGED <<agentCalls, agentVars, startVars, concVars>>
           ELSE IF QuestionOf(b) = <<>>
           THEN /\ response' = BadRequest
                /\ pc' = "responded"
                /\ UNCHANGED <<agentCalls, agentVars, startVars, concVars>>
           ELSE /\ agentCalls' = agentCalls + 1
                /\ AskWith(QuestionOf(b))
                /\ UNCHANGED response

\* the handler after rag_agent.ask_question: the success response, or the
\* except branch when the call raised
RouteRespond ==
    /\ pc \in {"returned", "escaped"}
    /\ request # NoRequest
    /\ response = NoResponse
    /\ response' = IF pc = "returned" THEN Success(answer) ELSE ServerError
    /\ pc' = "responded"
    /\ UNCHANGED <<request, agentCalls, agentVars, startVars, concVars>>

RouteNext ==
    \/ Construct
    \/ RouteReceive
    \/ CallLLM
    \/ TakeAction
    \/ GraphRecursion
    \/ ReturnAnswer
    \/ ReturnFallback
    \/ RouteRespond

RouteSpec == Init /\ [][RouteNext]_vars

-----------------------------------------------------------------------------
(* Concurrent calls of ask_question on the module-level rag_agent *)

\* every graph run writing to one module-level state
StateKey_shared(c) == "thread-1"

\* messages is a local of ask_question and rag_agent.invoke (a graph compiled
\* without a checkpointer) keeps the state of a run in that run
StateKey(c) == c

\* the responses of the reasoning service to a concurrent caller: a final
\* answer or the default retrieval request
ConcResponses(first) == Responses(MaxFreeTurns + 1, first)

ConcAsk(c) ==
    /\ pc = "idle"
    /\ frames[c].pc = "idle"
    /\ \E q \in Questions :
        /\ frames' = [frames EXCEPT ![c].question = q, ![c].pc = "llm", ![c].step = 0]
        /\ states' = [states EXCEPT ![StateKey(c)] = <<HumanMessage(q)>>]
    /\ UNCHANGED <<pc, agentVars, startVars, routeVars>>

ConcCallLLM(c) ==
    /\ frames[c].pc = "llm"
    /\ ~OutOfSteps(frames[c].step)
    /\ LET input == LLMMessages(states[StateKey(c)])
       IN  \/ /\ frames' = [frames EXCEPT ![c].llmInput = input, ![c].pc = "raised",
                                           ![c].error = "llm"]
              /\ UNCHANGED states
           \/ \E m \in ConcResponses(frames[c].nextId) :
                /\ states' = [states EXCEPT
                                ![StateKey(c)] = WriteMessages(states[StateKey(c)], <<m>>)]
                /\ frames' = [frames EXCEPT
                                ![c].llmInput = input,
                                ![c].nextId = frames[c].nextId + Len(m.tool_calls),
                                ![c].pc = NextNode(should_continue(states'[StateKey(c)])),
                                ![c].step = frames[c].step + 1]
    /\ UNCHANGED <<pc, agentVars, startVars, routeVars>>

ConcTakeAction(c) ==
    /\ frames[c].pc = "retriever_agent"
    /\ ~OutOfSteps(frames[c].step)
    /\ LET tool_calls == Last(states[StateKey(c)]).tool_calls
       IN  \E failAt \in {0} \cup Registered(tool_calls) :
            IF failAt = 0
            THEN /\ states' = [states EXCEPT
                                 ![StateKey(c)] = WriteMessages(states[StateKey(c)],
                                                               ToolResults(index, tool_calls))]
                 /\ frames' = [frames EXCEPT ![c].pc = "llm", ![c].step = frames[c].step + 1]
            ELSE /\ frames' = [frames EXCEPT ![c].pc = "raised", ![c].error = "tool"]
                 /\ UNCHANGED states
    /\ UNCHANGED <<pc, agentVars, startVars, routeVars>>

ConcGraphRecursion(c) ==
    /\ frames[c].pc \in {"llm", "retriever_agent"}
    /\ OutOfSteps(frames[c].step)
    /\ frames' = [frames EXCEPT ![c].pc = "raised", ![c].error = "recursion"]
    /\ UNCHANGED <<states, pc, agentVars, startVars, routeVars>>

ConcReturnAnswer(c) ==
    /\ frames[c].pc = "end"
    /\ frames' = [frames EXCEPT ![c].answer = ExtractAnswer(states[StateKey(c)]),
                                ![c].pc = "returned"]
    /\ UNCHANGED <<states, pc, agentVars, startVars, routeVars>>

ConcReturnFallback(c) ==
    /\ frames[c].pc = "raised"
    /\ frames' = IF Caught(frames[c].error)
                 THEN [frames EXCEPT ![c].answer = ExceptionAnswer(states[StateKey(c)]),
                                     ![c].pc = "returned"]
                 ELSE [frames EXCEPT ![c].pc = "escaped"]
    /\ UNCHANGED <<states, pc, agentVars, startVars, routeVars>>

ConcNext ==
    \/ Construct
    \/ \E c \in Callers : ConcAsk(c)
    \/ \E c \in Callers : ConcCallLLM(c)
    \/ \E c \in Callers : ConcTakeAction(c)
    \/ \E c \in Callers : ConcGraphRecursion(c)
    \/ \E c \in Callers : ConcReturnAnswer(c)
    \/ \E c \in Callers : ConcReturnFallback(c)

ConcSpec == Init /\ [][ConcNext]_vars

-----------------------------------------------------------------------------
(* Properties *)

IsText(t) == t # NoAnswer /\ \A i \in 1..Len(t) : t[i] \in STRING

HasToolCalls(m) == Len(m.tool_calls) > 0

\* the reasoning service has never failed and every one of its messages so
\* far carried a tool-call request
AlwaysRequestsTool ==
    /\ error # "llm"
    /\ \A i \in 1..Len(produced) :
          produced[i].role = "assistant" => HasToolCalls(produced[i])

\* C1: ask_question is total. Whatever the reasoning step and the tool step
\* do (answer, raise, run out of supersteps), no exception leaves
\* ask_question, the call can always make its next step until it has
\* returned, and what it returns is a text.
AskIsTotal ==
    /\ pc # "escaped"
    /\ pc \in {"llm", "retriever_agent", "end", "raised"} => ENABLED Next
    /\ pc = "returned" => IsText(answer)

\* C1 witness: the tool step raised and ask_question returned a text anyway
AskSurvivesToolFailure ==
    pc = "returned" /\ error = "tool" /\ answer = FallbackText

\* C2: a reasoning step that requests a tool on every turn cannot keep the
\* loop running: the graph never executes more than RecursionLimit
\* supersteps, such a run never reaches END, and when ask_question returns
\* from it the answer is the fallback text.
TurnBudgetHalts ==
    /\ step <= RecursionLimit
    /\ 2 * llmCalls <= RecursionLimit + 1
    /\ AlwaysRequestsTool => pc # "end"
    /\ AlwaysRequestsTool /\ pc = "returned" => answer = FallbackText

\* C2 witness: the budget ran out on a service that asked for a tool every
\* turn and no tool failed
BudgetExhausted ==
    /\ pc = "returned"
    /\ error = "recursion"
    /\ AlwaysRequestsTool
    /\ step = RecursionLimit
    /\ answer = FallbackText

\* C3 (as claimed): in the conversation state every tool-result message is
\* preceded by an assistant message, with only tool results in between, that
\* requested its call id, and no call id is answered twice.
ToolResultsFollowTheirRequest ==
    \A i \in 1..Len(messages) :
        messages[i].role = "tool" =>
            /\ \E j \in 1..(i - 1) :
                  /\ messages[j].role = "assistant"
                  /\ \A k \in (j + 1)..(i - 1) : messages[k].role = "tool"
                  /\ \E c \in 1..Len(messages[j].tool_calls) :
                        messages[j].tool_calls[c].id = messages[i].tool_call_id
            /\ \A k \in 1..Len(messages) :
                  (k # i /\ messages[k].role = "tool")
                      => messages[k].tool_call_id # messages[i].tool_call_id

\* C4 (as claimed): the conversation state only grows; every step that
\* changes it leaves the old sequence as a proper prefix of the new one.
ConversationAppendOnly ==
    [][messages' # messages =>
          /\ Len(messages') > Len(messages)
          /\ SubSeq(messages', 1, Len(messages)) = messages]_vars

\* C5 (as claimed): every call of the reasoning service receives the system
\* message, the user's question and then every assistant and tool message
\* produced before the call, in order.
ReasoningSeesFullConversation ==
    [][llmCalls' = llmCalls + 1 =>
          llmInput' = <<SystemMessage(system_prompt), HumanMessage(question)>> \o produced]_vars

\* C6: a reasoning step that returned a message is followed by Acting exactly
\* when the message carries a tool-call request and by Done exactly when it
\* carries none, and Acting is never entered on a message without requests.
RoutingFollowsToolCalls ==
    [][/\ (pc = "llm" /\ Len(produced') = Len(produced) + 1) =>
              /\ pc' = "retriever_agent" <=> HasToolCalls(Last(produced'))
              /\ pc' = "end" <=> ~HasToolCalls(Last(produced'))
       /\ pc' = "retriever_agent" =>
              /\ Last(messages').role = "assistant"
              /\ HasToolCalls(Last(messages'))]_vars

\* C6 witness: one turn went through Acting and the next one went to Done
ActedThenDone ==
    pc = "end" /\ llmCalls = 2 /\ retrieverCalls > 0 /\ ~HasToolCalls(Last(messages))

\* C7 (as claimed): an Acting step on requests r1..rn produces exactly n
\* tool-result messages, the i-th with the id and name of ri, and hands
\* control back to Reasoning.
ActingAnswersEveryRequest ==
    [][(pc = "retriever_agent" /\ pc' # pc /\ error' # "recursion") =>
          LET calls == Last(messages).tool_calls
          IN  /\ pc' = "llm"
              /\ Len(produced') = Len(produced) + Len(calls)
              /\ \A i \in 1..Len(calls) :
                    /\ produced'[Len(produced) + i].role = "tool"
                    /\ produced'[Len(produced) + i].tool_call_id = calls[i].id
                    /\ produced'[Len(produced) + i].name = calls[i].name]_vars

\* C8 (as claimed): an Acting step on a message that names an unregistered
\* tool does not fail: that call's result is the unknown-tool text, the
\* retrieval tool runs for the registered calls only, and Reasoning is next.
UnknownToolDoesNotFail ==
    [][(/\ pc = "retriever_agent" /\ pc' # pc /\ error' # "recursion"
        /\ \E i \in 1..Len(Last(messages).tool_calls) :
              Last(messages).tool_calls[i].name \notin tools_dict) =>
          LET calls == Last(messages).tool_calls
          IN  /\ pc' = "llm"
              /\ error' = "none"
              /\ Len(messages') = Len(calls)
              /\ \A i \in 1..Len(calls) :
                    calls[i].name \notin tools_dict
                        => messages'[i].content = IncorrectToolText
              /\ retrieverCalls' = retrieverCalls + Cardinality(Registered(calls))]_vars

\* C9: once a call of the reasoning service has failed, the service and the
\* tools are not invoked again; the failing step leaves the graph at once
\* and the only thing ask_question does afterwards is return the fallback text.
ReasoningFailureAborts ==
    [][/\ (error = "none" /\ error' = "llm") => pc' = "raised"
       /\ error = "llm" =>
              /\ llmCalls' = llmCalls
              /\ retrieverCalls' = retrieverCalls
              /\ produced' = produced
              /\ pc' = "returned"
              /\ answer' = FallbackText]_vars

\* C9 witness: the service failed on a later turn, after tool results were
\* already in the state, and the answer is the fallback text
LateReasoningFailure ==
    /\ pc = "returned"
    /\ error = "llm"
    /\ llmCalls > 1
    /\ retrieverCalls > 0
    /\ answer = FallbackText

\* C10 (as claimed): a retrieval that fails while serving a query yields the
\* no-relevant-information text as the tool result and the loop goes on to
\* the next reasoning step.
RetrievalFailureDegrades ==
    [][error' = "tool" =>
          /\ pc' = "llm"
          /\ Len(messages') > 0
          /\ \E i \in 1..Len(messages') :
                messages'[i].role = "tool" /\ messages'[i].content = NoInfoText]_vars

\* C11: when the graph has reached END, the last message of the state is
\* the assistant message without tool-call requests that the reasoning step
\* just returned, and the answer ask_question returns is that message's text.
AnswerIsFinalAssistantText ==
    /\ pc = "end" =>
          /\ Len(messages) > 0
          /\ Last(messages) = Last(produced)
          /\ Last(messages).role = "assistant"
          /\ ~HasToolCalls(Last(messages))
    /\ (pc = "returned" /\ error = "none") =>
          /\ Last(messages).role = "assistant"
          /\ ~HasToolCalls(Last(messages))
          /\ answer = Last(messages).content

\* C11 witness: a call that went through Acting returned the final text
ReturnedFinalTextAfterActing ==
    pc = "returned" /\ error = "none" /\ retrieverCalls > 0 /\ answer = FinalText

\* C13: every result the retrieval tool returned is the fixed text when the
\* store returned no chunk, and otherwise the first min(k, size) chunks of
\* the store in rank order, chunk d behind the label "Document d" (d from 1)
\* and separated from the next by a blank line.
RetrievalResultFormat ==
    \A i \in 1..Len(produced) :
        (produced[i].role = "tool" /\ produced[i].name \in tools_dict) =>
            LET c == produced[i].content
                n == Min(K, Len(index))
            IN  IF Len(index) = 0
                THEN c = NoInfoText
                ELSE /\ Len(c) = 5 * n - 1
                     /\ \A d \in 1..n :
                           /\ c[5 * (d - 1) + 1] = "Document "
                           /\ c[5 * (d - 1) + 2] = ToString(d)
                           /\ c[5 * (d - 1) + 3] = ":\n"
                           /\ c[5 * (d - 1) + 4] = index[d]
                           /\ d < n => c[5 * d] = "\n\n"

\* C13 witness: the store holds more than k chunks and a result with exactly
\* k documents was returned
RetrievalCutAtK ==
    /\ Len(index) > K
    /\ \E i \in 1..Len(produced) :
          /\ produced[i].role = "tool"
          /\ Len(produced[i].content) = 5 * K - 1
          /\ produced[i].content[5 * K - 1] = index[K]

\* the reasoning step has returned a message without tool-call requests
DoneReached ==
    \/ pc = "end"
    \/ /\ produced # <<>>
       /\ Last(produced).role = "assistant"
       /\ ~HasToolCalls(Last(produced))

\* C15: once the loop has reached Done, neither the reasoning service nor the
\* retrieval tool is invoked again and no further message is produced.
NoStepAfterDone ==
    [][DoneReached =>
          /\ llmCalls' = llmCalls
          /\ retrieverCalls' = retrieverCalls
          /\ produced' = produced
          /\ pc' \in {"end", "returned"}]_vars

\* C15 witness: Done was reached after at least one Acting step and the
\* call has returned
DoneAfterActingReturned ==
    DoneReached /\ pc = "returned" /\ llmCalls > 1 /\ retrieverCalls > 0

\* C14: the index is built exactly once, before any question is taken: a
\* process that is past startup has built it once, no question is in
\* progress before that, and no later step builds again or changes the index.
IndexBuiltOnceBeforeQuestions ==
    [][/\ pc' \notin {"boot", "startup_failed"} => builds' = 1
       /\ pc' \in {"boot", "startup_failed"} => (question' = NoAnswer /\ llmCalls' = 0)
       /\ pc # "boot" => (builds' = builds /\ index' = index)]_vars

\* C14 witness: a question went through retrieval and was answered on the
\* index of the one build
AnsweredOnTheOneBuild ==
    pc = "returned" /\ builds = 1 /\ Len(index) > 0 /\ retrieverCalls > 0

\* C16: with the corpus file missing, construction fails before anything is
\* built, and the process never gets to take a question.
MissingCorpusStopsStartup ==
    ~pdfExists =>
        /\ pc \in {"boot", "startup_failed"}
        /\ builds = 0
        /\ index = <<>>
        /\ question = NoAnswer
        /\ llmCalls = 0

\* C16 witness: the file was missing and construction has failed
StartupFailedOnMissingCorpus ==
    ~pdfExists /\ pc = "startup_failed" /\ builds = 0

\* C17 (as claimed): an Acting step on a request for the registered tool
\* whose arguments hold no query invokes the tool with empty text, produces
\* a tool-result message for that call id and goes on to Reasoning.
MissingQueryStillAnswered ==
    [][(pc = "retriever_agent" /\ pc' # pc /\ error' # "recursion") =>
          \A i \in Registered(Last(messages).tool_calls) :
              "query" \notin DOMAIN Last(messages).tool_calls[i].args =>
                  /\ \E k \in 1..Len(queryLog') : queryLog'[k] = <<>>
                  /\ \E k \in 1..Len(messages') :
                        /\ messages'[k].role = "tool"
                        /\ messages'[k].tool_call_id = Last(messages).tool_calls[i].id
                  /\ pc' = "llm"]_vars

\* the request carries no question: the key is absent or null
QuestionMissing == request.kind \in {"no_key", "null"}

\* the request carries a text made of whitespace only (or of nothing)
QuestionBlank ==
    /\ request.kind = "text"
    /\ \A i \in 1..Len(request.question) : request.question[i] \in Whitespace

\* C18 (as claimed): a request whose question is missing, empty or
\* whitespace-only is answered 400 'No question provided' without the agent
\* being invoked, and a request with any other question text invokes the
\* agent exactly once.
BlankQuestionRejected ==
    /\ agentCalls <= 1
    /\ (pc = "responded" /\ (QuestionMissing \/ QuestionBlank)) =>
          (response = BadRequest /\ agentCalls = 0)
    /\ (pc = "responded" /\ request.kind = "text" /\ ~QuestionBlank) => agentCalls = 1

\* C19: a failure inside the agent call never shows as the handler's error
\* response: every request that reached the agent is answered 'success', with
\* the fallback text when the loop failed, and the 500 response is given
\* only to requests for which the agent was not invoked.
LoopFailureAnsweredAsSuccess ==
    /\ response.status = "error" => agentCalls = 0
    /\ (pc = "responded" /\ agentCalls > 0) =>
          (response.status = "success" /\ response.code = 200)
    /\ (pc = "responded" /\ error # "none") => response = Success(FallbackText)

\* C19 witness: the tool step failed and the handler answered success with
\* the fallback text
ToolFailureAnsweredAsSuccess ==
    /\ pc = "responded"
    /\ error = "tool"
    /\ agentCalls = 1
    /\ response.status = "success"
    /\ response.answer = FallbackText

\* the tool-call ids the reasoning service issued while serving caller c
IdsOf(c) == (IdBase(c) + 1)..(frames[c].nextId - 1)

\* message m stems from caller c's own conversation: its question, a message
\* the reasoning service returned to it, or the result of one of its requests
OwnMessage(c, m) ==
    CASE m.role = "system" -> m = SystemMessage(system_prompt)
      [] m.role = "user" -> m = HumanMessage(frames[c].question)
      [] m.role = "assistant" ->
            \A i \in 1..Len(m.tool_calls) : m.tool_calls[i].id \in IdsOf(c)
      [] m.role = "tool" -> m.tool_call_id \in IdsOf(c)

\* C12: under every interleaving of two callers, the conversation state of a
\* call and the input of its reasoning steps hold only messages of that
\* call's own conversation, a call that has not started has no state, and
\* the answer a call returns is the fallback text or the text of the last
\* message of its own state.
ConcurrentAsksIsolated ==
    \A c \in Callers :
        /\ \A i \in 1..Len(states[c]) : OwnMessage(c, states[c][i])
        /\ \A i \in 1..Len(frames[c].llmInput) : OwnMessage(c, frames[c].llmInput[i])
        /\ frames[c].pc = "idle" => states[c] = <<>>
        /\ frames[c].pc \notin {"idle", "raised", "returned"} => states[c] # <<>>
        /\ frames[c].pc = "returned" =>
              IF frames[c].error = "none"
              THEN states[c] # <<>> /\ frames[c].answer = Last(states[c]).content
              ELSE frames[c].answer = FallbackText

\* C12 witness: two calls with different questions are both in the middle of
\* their loops, each about to run the tools for its own request
BothCallersActing ==
    /\ frames["thread-1"].pc = "retriever_agent"
    /\ frames["thread-2"].pc = "retriever_agent"
    /\ frames["thread-1"].step > 2
    /\ frames["thread-2"].step > 2
    /\ frames["thread-1"].question # frames["thread-2"].question

====
